---- MODULE Spec2Model ----
(***************************************************************************)
(* A timed model of the retry and polling helpers of the API test suite:   *)
(*   TestHelpers.sleep / TestHelpers.retry      (src/unnamed/part_002)     *)
(*   APITestUtils.waitForCondition              (src/unnamed/part_001)     *)
(* Calls run on one JavaScript event loop: the steps of a call between two *)
(* awaits of a timer take no time, a timer set by setTimeout fires when    *)
(* its delay has passed, and the clock (Date.now) is shared by all calls.  *)
(* Each call keeps its loop state in its own locals.                       *)
(*                                                                         *)
(* Further components, each with a specification of its own:               *)
(*   APITestUtils.createPerformanceMetrics      (src/unnamed/part_001)     *)
(*   APITestUtils.validate...                   (src/unnamed/part_001)     *)
(*   BaseAPIClient and the service objects      (src/docs, src/clients)    *)
(*   CartAPI.sessionToken under concurrent calls (src/clients)             *)
(*   AuthAPI.register / changePassword          (src/clients)              *)
(*   extractValue / extractNestedValue          (src/docs, src/unnamed)    *)
(***************************************************************************)
EXTENDS Integers, Sequences, FiniteSets, TLC

VARIABLES
    now,        \* the clock, in ms (Date.now)
    cancelled,  \* the enclosing test was cancelled (its timeout fired)
    timers,     \* the timers scheduled by setTimeout: [call, due]
    rcfg,       \* call -> the arguments of a retry call
    rst,        \* call -> the locals and the observable effects of a retry call
    pcfg,       \* call -> the arguments of a waitForCondition call
    pst,        \* call -> the locals and the observable effects of a waitForCondition call
    met,        \* a measurement session: the caller's responseTimes array and its summary
    val,        \* a response validation: the response, the expectation, the outcome
    cli,        \* a service-object operation: its request, its events, its outcome
    url,        \* two buildURL calls: their parameter maps and the URLs built
    ses,        \* a CartAPI client: its sessionToken and the calls made through it
    frm,        \* an AuthAPI register / changePassword call: its arguments and the data sent
    ext         \* a JSON body, a dotted path and what the two extractors make of them

vars == <<now, cancelled, timers, rcfg, rst, pcfg, pst, met, val, cli, url,
          ses, frm, ext>>
timed == <<now, cancelled, timers, rcfg, rst, pcfg, pst>>
more == <<ses, frm, ext>>
aux == <<met, val, cli, url, ses, frm, ext>>

--------------------------------------------------------------------------
(* Bounds of the model *)

MaxAttempts == 3
MaxDelay == 2
MaxStart == 1
MaxTimeout == 3
MaxInterval == 2
PartnerMaxAttempts == 2
PartnerMaxTimeout == 2

Calls == {1, 2}

AttemptValues == (0 - 1)..MaxAttempts
DelayValues == 0..MaxDelay
StartTimes == 0..MaxStart
TimeoutValues == 0..MaxTimeout
IntervalValues == 0..MaxInterval

--------------------------------------------------------------------------
(* What one invocation of the action of a retry call can do: resolve with  *)
(* a response ("ok": a response a caller's retry predicate accepts,        *)
(* "retryable": a response such a predicate would want retried, e.g. 503), *)
(* or throw one of two distinguishable errors.                             *)

ActionErrors == {"TransportError", "TimeoutError"}
ActionResults == {"ok", "retryable"}
Outcomes == ActionResults \cup ActionErrors

(* What one evaluation of the condition of a poll can do. *)
PredErrors == {"PredErrorA", "PredErrorB"}
PredOutcomes == {"true", "false"} \cup PredErrors

NoError == [name |-> "none", cause |-> "none"]
ErrorValue(e) == [name |-> e, cause |-> "none"]

--------------------------------------------------------------------------
(* setTimeout(resolve, ms): the timer fires ms later; the runtime raises a *)
(* delay below 1 ms to 1 ms.                                               *)
TimerDelay(ms) == IF ms < 1 THEN 1 ELSE ms

TimerOf(c) == {t \in timers : t.call = c}
TimerDue(c) == \E t \in TimerOf(c) : t.due <= now

--------------------------------------------------------------------------
(* TestHelpers.retry *)

IdleRetry ==
    [pc |-> "idle", attempt |-> 0, lastError |-> "undefined", result |-> "none",
     thrown |-> NoError, hist |-> <<>>, at |-> <<>>, sleeps |-> <<>>]
IdleRetryCfg == [maxAttempts |-> 0, delayMs |-> 0, startAt |-> 0]

LoopContinuesOffByOne(attempt, maxAttempts) == attempt <= maxAttempts + 1

\* for (let attempt = 1; attempt <= maxAttempts; attempt++)
LoopContinues(attempt, maxAttempts) == attempt <= maxAttempts

ResolvesOnlyAccepted(o) == o = "ok"

\* try { return await action(); } catch (error) { ... }
Resolves(o) == o \in ActionResults

CatchErrorKeepFirst(lastError, error) ==
    IF lastError = "undefined" THEN error ELSE lastError

\* lastError = error as Error;
CatchError(lastError, error) == error

MoreAttemptsLeftInclusive(attempt, maxAttempts) == attempt <= maxAttempts

\* if (attempt < maxAttempts)
MoreAttemptsLeft(attempt, maxAttempts) == attempt < maxAttempts

SleepArgBackoff(delayMs, attempt) == delayMs * attempt

\* await this.sleep(delayMs);
SleepArg(delayMs, attempt) == delayMs

\* throw lastError;
ThrowValue(lastError) == ErrorValue(lastError)

RetryStart(c) ==
    /\ rst[c].pc = "ready"
    /\ now = rcfg[c].startAt
    /\ rst' = [rst EXCEPT ![c].pc = "loop", ![c].attempt = 1,
                          ![c].lastError = "undefined"]
    /\ UNCHANGED <<now, cancelled, timers, rcfg, pcfg, pst>>
    /\ UNCHANGED aux

RetryAttempt(c) ==
    /\ rst[c].pc = "loop"
    /\ LoopContinues(rst[c].attempt, rcfg[c].maxAttempts)
    /\ \E o \in Outcomes :
         LET called == [rst[c] EXCEPT !.hist = Append(@, o), !.at = Append(@, now)]
         IN  IF Resolves(o)
             THEN /\ rst' = [rst EXCEPT ![c] =
                               [called EXCEPT !.pc = "returned", !.result = o]]
                  /\ UNCHANGED timers
             ELSE LET caught == [called EXCEPT
                                   !.lastError = CatchError(rst[c].lastError, o)]
                  IN  IF MoreAttemptsLeft(rst[c].attempt, rcfg[c].maxAttempts)
                      THEN LET ms == SleepArg(rcfg[c].delayMs, rst[c].attempt)
                           IN  /\ rst' = [rst EXCEPT ![c] =
                                            [caught EXCEPT !.pc = "sleep",
                                                           !.sleeps = Append(@, ms)]]
                               /\ timers' = timers \cup
                                    {[call |-> c, due |-> now + TimerDelay(ms)]}
                      ELSE /\ rst' = [rst EXCEPT ![c] =
                                        [caught EXCEPT !.attempt = @ + 1]]
                           /\ UNCHANGED timers
    /\ UNCHANGED <<now, cancelled, rcfg, pcfg, pst>>
    /\ UNCHANGED aux

RetryWake(c) ==
    /\ rst[c].pc = "sleep"
    /\ TimerDue(c)
    /\ timers' = timers \ TimerOf(c)
    /\ rst' = [rst EXCEPT ![c].pc = "loop", ![c].attempt = @ + 1]
    /\ UNCHANGED <<now, cancelled, rcfg, pcfg, pst>>
    /\ UNCHANGED aux

RetryExhausted(c) ==
    /\ rst[c].pc = "loop"
    /\ ~LoopContinues(rst[c].attempt, rcfg[c].maxAttempts)
    /\ rst' = [rst EXCEPT ![c].pc = "threw",
                          ![c].thrown = ThrowValue(rst[c].lastError)]
    /\ UNCHANGED <<now, cancelled, timers, rcfg, pcfg, pst>>
    /\ UNCHANGED aux

RetryStep(c) == RetryStart(c) \/ RetryAttempt(c) \/ RetryWake(c) \/ RetryExhausted(c)

--------------------------------------------------------------------------
(* APITestUtils.waitForCondition *)

IdlePoll ==
    [pc |-> "idle", startTime |-> 0, evals |-> <<>>, at |-> <<>>, waits |-> 0,
     endTime |-> 0, thrown |-> NoError]
IdlePollCfg == [timeout |-> 0, interval |-> 0, startAt |-> 0]

\* const startTime = Date.now();
StartStamp(t) == t

WithinTimeoutInclusive(elapsed, timeout) == elapsed <= timeout

\* while (Date.now() - startTime < timeout)
WithinTimeout(elapsed, timeout) == elapsed < timeout

ThrowsSwallowed(o) == FALSE

\* await condition() throws: nothing catches it, the call rejects with it
Throws(o) == o \in PredErrors

SatisfiedNegated(o) == o = "false"

\* if (await condition()) return;
Satisfied(o) == o = "true"

\* throw new Error(`Condition not met within ${timeout}ms`);
TimeoutError == [name |-> "Error: Condition not met", cause |-> "none"]

\* startTime kept in a field shared by all calls instead of a local
PollStartSharedStamp(c) ==
    /\ pst[c].pc = "ready"
    /\ now = pcfg[c].startAt
    /\ pst' = [d \in Calls |->
                 IF d = c
                 THEN [pst[d] EXCEPT !.pc = "check", !.startTime = StartStamp(now)]
                 ELSE [pst[d] EXCEPT !.startTime = StartStamp(now)]]
    /\ UNCHANGED <<now, cancelled, timers, rcfg, rst, pcfg>>
    /\ UNCHANGED aux

PollStart(c) ==
    /\ pst[c].pc = "ready"
    /\ now = pcfg[c].startAt
    /\ pst' = [pst EXCEPT ![c].pc = "check", ![c].startTime = StartStamp(now)]
    /\ UNCHANGED <<now, cancelled, timers, rcfg, rst, pcfg>>
    /\ UNCHANGED aux

PollEvaluate(c) ==
    /\ pst[c].pc = "check"
    /\ WithinTimeout(now - pst[c].startTime, pcfg[c].timeout)
    /\ \E o \in PredOutcomes :
         LET evald == [pst[c] EXCEPT !.evals = Append(@, o), !.at = Append(@, now)]
         IN  IF Throws(o)
             THEN /\ pst' = [pst EXCEPT ![c] =
                               [evald EXCEPT !.pc = "rejected", !.endTime = now,
                                             !.thrown = ErrorValue(o)]]
                  /\ UNCHANGED timers
             ELSE IF Satisfied(o)
             THEN /\ pst' = [pst EXCEPT ![c] =
                               [evald EXCEPT !.pc = "resolved", !.endTime = now]]
                  /\ UNCHANGED timers
             ELSE /\ pst' = [pst EXCEPT ![c] =
                               [evald EXCEPT !.pc = "sleep", !.waits = @ + 1]]
                  /\ timers' = timers \cup
                       {[call |-> c, due |-> now + TimerDelay(pcfg[c].interval)]}
    /\ UNCHANGED <<now, cancelled, rcfg, rst, pcfg>>
    /\ UNCHANGED aux

PollWake(c) ==
    /\ pst[c].pc = "sleep"
    /\ TimerDue(c)
    /\ timers' = timers \ TimerOf(c)
    /\ pst' = [pst EXCEPT ![c].pc = "check"]
    /\ UNCHANGED <<now, cancelled, rcfg, rst, pcfg>>
    /\ UNCHANGED aux

PollTimeout(c) ==
    /\ pst[c].pc = "check"
    /\ ~WithinTimeout(now - pst[c].startTime, pcfg[c].timeout)
    /\ pst' = [pst EXCEPT ![c].pc = "timedout", ![c].endTime = now,
                          ![c].thrown = TimeoutError]
    /\ UNCHANGED <<now, cancelled, timers, rcfg, rst, pcfg>>
    /\ UNCHANGED aux

PollStep(c) == PollStart(c) \/ PollEvaluate(c) \/ PollWake(c) \/ PollTimeout(c)

--------------------------------------------------------------------------
(* The event loop: time passes only when no call has a step to take now.   *)

Urgent(c) ==
    \/ rst[c].pc = "loop"
    \/ rst[c].pc = "ready" /\ rcfg[c].startAt <= now
    \/ pst[c].pc = "check"
    \/ pst[c].pc = "ready" /\ pcfg[c].startAt <= now
    \/ TimerDue(c)

Pending(c) == rst[c].pc \in {"ready", "sleep"} \/ pst[c].pc \in {"ready", "sleep"}

Tick ==
    /\ \A c \in Calls : ~Urgent(c)
    /\ \E c \in Calls : Pending(c)
    /\ now' = now + 1
    /\ UNCHANGED <<cancelled, timers, rcfg, rst, pcfg, pst>>
    /\ UNCHANGED aux

(* The enclosing test is cancelled while a call of it is suspended (the    *)
(* test's timeout fires as a task of its own on the event loop, so never   *)
(* in the middle of a call's synchronous steps). retry, sleep and          *)
(* waitForCondition take no cancellation signal and keep no handle of      *)
(* their timers, so nothing of theirs changes.                             *)
Cancel ==
    /\ ~cancelled
    /\ \A c \in Calls : /\ rst[c].pc \notin {"ready", "loop"}
                        /\ pst[c].pc \notin {"ready", "check"}
    /\ \E c \in Calls : rst[c].pc = "sleep" \/ pst[c].pc = "sleep"
    /\ cancelled' = TRUE
    /\ UNCHANGED <<now, timers, rcfg, rst, pcfg, pst>>
    /\ UNCHANGED aux

--------------------------------------------------------------------------
(* The further components at rest.                                         *)

\* JavaScript values a summary field can hold: a number (kept as an exact
\* fraction num/den), undefined (an index outside the array), NaN (0/0).
Num(n) == [kind |-> "number", num |-> n, den |-> 1]
Undefined == [kind |-> "undefined", num |-> 0, den |-> 1]
NaN == [kind |-> "NaN", num |-> 0, den |-> 1]
Infinity == [kind |-> "Infinity", num |-> 0, den |-> 1]

NoSummary == [min |-> Undefined, max |-> Undefined, avg |-> Undefined,
              median |-> Undefined]
IdleMet == [pc |-> "idle", input |-> <<>>, samples |-> <<>>,
            result |-> NoSummary, threw |-> "none"]
\* A response as the validators read it: status(), headers() (names in
\* lower case; a value is a string, kept as a sequence of tokens, <<>> when
\* the header is absent) and json() (the keys of the body, or a body that
\* is not JSON).
NoResponse ==
    [status |-> 0, headers |-> [n \in {"content-type", "x-id"} |-> <<>>],
     json |-> FALSE, keys |-> {}]
IdleVal ==
    [pc |-> "idle", response |-> NoResponse, op |-> "none", status |-> 0,
     ctype |-> <<>>, headers |-> <<>>, keys |-> <<>>,
     error |-> "none", reported |-> <<>>]
\* What a transport send produced / what an operation handed to its caller.
NoOutcome == [kind |-> "none", status |-> 0]
IdleCli ==
    [pc |-> "idle", op |-> "none", payload |-> "none", steps |-> <<>>,
     sends |-> 0, loggedMethod |-> "none", sentMethod |-> "none",
     transport |-> NoOutcome,
     readable |-> TRUE, events |-> <<>>, result |-> NoOutcome,
     thrown |-> "none"]
\* A params argument: undefined, or an object whose entries are kept in
\* the order in which its keys were inserted.
NoParams == [defined |-> FALSE, entries |-> <<>>]
IdleUrl ==
    [pc |-> "idle", endpoint |-> "", first |-> NoParams, second |-> NoParams,
     url1 |-> "", url2 |-> ""]

\* A token value: a string, null, or undefined (never assigned).
NoToken == [kind |-> "undefined", text |-> ""]
NoRequest == [method |-> "none", route |-> "", headers |-> <<>>, body |-> <<>>]
NoReply == [for |-> 0, status |-> 0]
NewCall ==
    [pc |-> "new", op |-> "none", productId |-> "", request |-> NoRequest,
     response |-> NoReply]
IdleSes ==
    [pc |-> "idle", sessionToken |-> NoToken, sets |-> 0, log |-> <<>>,
     calls |-> [i \in {1, 2} |-> NewCall],
     replies |-> [i \in {1, 2} |-> NoReply]]
\* A JavaScript value held by a field of request data.
StringOf(t) == [kind |-> "string", str |-> t, num |-> 0]
NumberOf(n) == [kind |-> "number", str |-> "", num |-> n]
Absent == [kind |-> "undefined", str |-> "", num |-> 0]
NoData == [f \in {"email", "password", "confirm", "agree"} |-> Absent]
IdleFrm ==
    [pc |-> "idle", op |-> "none", userData |-> NoData,
     currentPassword |-> "", newPassword |-> "", confirmPassword |-> "",
     data |-> NoData]
\* A JSON body as a tree: the kind of value at each place, a place being
\* the keys that lead to it from the root (<<>>).
JsonKeys == {"a", "b"}
Places == {<<>>} \cup {<<k>> : k \in JsonKeys} \cup {<<k, l>> : k, l \in JsonKeys}
NoResult == [outcome |-> "none", kind |-> "undefined", at |-> <<>>]
IdleExt ==
    [pc |-> "idle", body |-> [p \in Places |-> "absent"], path |-> <<>>,
     viaClient |-> NoResult, viaUtils |-> NoResult]
MoreIdle == ses = IdleSes /\ frm = IdleFrm /\ ext = IdleExt
AuxIdle ==
    met = IdleMet /\ val = IdleVal /\ cli = IdleCli /\ url = IdleUrl /\ MoreIdle

--------------------------------------------------------------------------
(* The calls of a scenario: call 1 is a retry or a poll with any           *)
(* arguments; call 2 is absent, or a concurrent retry or poll.             *)

RetryCfgs ==
    [maxAttempts : AttemptValues, delayMs : DelayValues, startAt : StartTimes]
PollCfgs ==
    [timeout : TimeoutValues, interval : IntervalValues, startAt : StartTimes]
PartnerRetryCfgs ==
    [maxAttempts : 1..PartnerMaxAttempts, delayMs : {1}, startAt : StartTimes]
PartnerPollCfgs ==
    [timeout : 1..PartnerMaxTimeout, interval : {1}, startAt : StartTimes]

ReadyRetry == [IdleRetry EXCEPT !.pc = "ready"]
ReadyPoll == [IdlePoll EXCEPT !.pc = "ready"]

Init ==
    /\ AuxIdle
    /\ now = 0
    /\ cancelled = FALSE
    /\ timers = {}
    /\ \E k1 \in {"retry", "poll"}, k2 \in {"none", "retry", "poll"} :
       \E rc1 \in RetryCfgs, pc1 \in PollCfgs,
          rc2 \in PartnerRetryCfgs, pc2 \in PartnerPollCfgs :
         /\ rcfg = [c \in Calls |->
                      IF c = 1 THEN (IF k1 = "retry" THEN rc1 ELSE IdleRetryCfg)
                      ELSE (IF k2 = "retry" THEN rc2 ELSE IdleRetryCfg)]
         /\ pcfg = [c \in Calls |->
                      IF c = 1 THEN (IF k1 = "poll" THEN pc1 ELSE IdlePollCfg)
                      ELSE (IF k2 = "poll" THEN pc2 ELSE IdlePollCfg)]
         /\ rst = [c \in Calls |->
                     IF (c = 1 /\ k1 = "retry") \/ (c = 2 /\ k2 = "retry")
                     THEN ReadyRetry ELSE IdleRetry]
         /\ pst = [c \in Calls |->
                     IF (c = 1 /\ k1 = "poll") \/ (c = 2 /\ k2 = "poll")
                     THEN ReadyPoll ELSE IdlePoll]

Next ==
    \/ \E c \in Calls : RetryStart(c)
    \/ \E c \in Calls : RetryAttempt(c)
    \/ \E c \in Calls : RetryWake(c)
    \/ \E c \in Calls : RetryExhausted(c)
    \/ \E c \in Calls : PollStart(c)
    \/ \E c \in Calls : PollEvaluate(c)
    \/ \E c \in Calls : PollWake(c)
    \/ \E c \in Calls : PollTimeout(c)
    \/ Tick
    \/ Cancel

Spec == Init /\ [][Next]_vars

(* The polls of a scenario alone, with the event loop's fairness: every    *)
(* continuation that is ready runs, every due timer fires, time passes.    *)
PollInit == Init /\ \A c \in Calls : rst[c].pc = "idle"

PollNext ==
    \/ \E c \in Calls : PollStart(c)
    \/ \E c \in Calls : PollEvaluate(c)
    \/ \E c \in Calls : PollWake(c)
    \/ \E c \in Calls : PollTimeout(c)
    \/ Tick
    \/ Cancel

FairPollSpec ==
    /\ PollInit
    /\ [][PollNext]_vars
    /\ WF_vars(Tick)
    /\ \A c \in Calls : WF_vars(PollStep(c))

--------------------------------------------------------------------------
(* Vocabulary of the properties *)

IsRetry(c) == rst[c].pc # "idle"
IsPoll(c) == pst[c].pc # "idle"
RetryDone(c) == rst[c].pc \in {"returned", "threw"}
PollDone(c) == pst[c].pc \in {"resolved", "rejected", "timedout"}
Last(s) == s[Len(s)]
NumErrors(h) == Cardinality({i \in 1..Len(h) : h[i] \in ActionErrors})
AllFalse(c) == \A i \in 1..Len(pst[c].evals) : pst[c].evals[i] = "false"

--------------------------------------------------------------------------
(* C1: for every maxAttempts = N >= 1 a retry run invokes the action at    *)
(* most N times; when the action fails K < N times and then succeeds, the  *)
(* run has returned that success after exactly K+1 invocations, and it     *)
(* makes no further invocation (a success is always the last invocation).  *)
C1_AtMostNInvocations ==
    \A c \in Calls :
      (IsRetry(c) /\ rcfg[c].maxAttempts >= 1) =>
        /\ Len(rst[c].hist) <= rcfg[c].maxAttempts
        /\ NumErrors(rst[c].hist) < Len(rst[c].hist) =>
             /\ rst[c].pc = "returned"
             /\ Len(rst[c].hist) = NumErrors(rst[c].hist) + 1
             /\ rst[c].result = Last(rst[c].hist)

C1_Witness ==
    \E c \in Calls :
      /\ rcfg[c].maxAttempts = 3
      /\ rst[c].pc = "returned"
      /\ Len(rst[c].hist) = 3
      /\ NumErrors(rst[c].hist) = 2

(* C2, as stated: when every attempt failed the run fails with a           *)
(* RetryExhaustedError that carries the last observed error.               *)
C2_ThrowsRetryExhaustedError ==
    \A c \in Calls :
      rst[c].pc = "threw" =>
        /\ rst[c].thrown.name = "RetryExhaustedError"
        /\ rst[c].thrown.cause = rst[c].lastError

(* C2, amended: when all maxAttempts >= 1 attempts failed the run fails by *)
(* throwing the last error the action raised, as it is (not wrapped); the  *)
(* run never completes normally after its last attempt failed.             *)
C2_ThrowsLastError ==
    \A c \in Calls :
      (IsRetry(c) /\ rcfg[c].maxAttempts >= 1) =>
        /\ rst[c].pc = "threw" =>
             /\ Len(rst[c].hist) = rcfg[c].maxAttempts
             /\ \A i \in 1..Len(rst[c].hist) : rst[c].hist[i] \in ActionErrors
             /\ rst[c].thrown = [name |-> Last(rst[c].hist), cause |-> "none"]
        /\ (Len(rst[c].hist) = rcfg[c].maxAttempts
              /\ Last(rst[c].hist) \in ActionErrors) =>
             /\ rst[c].pc \in {"loop", "threw"}
             /\ rst[c].result = "none"

C2_Witness ==
    \E c \in Calls :
      /\ rst[c].pc = "threw"
      /\ rcfg[c].maxAttempts = 3
      /\ rst[c].hist[1] # rst[c].hist[3]

(* C3, as stated: a result on which isRetryable is true is a failure, so a *)
(* run returns only a result on which isRetryable is false.                *)
C3_RetryableResultIsRetried ==
    \A c \in Calls :
      rst[c].pc = "returned" => rst[c].result # "retryable"

(* C3, amended: a retry run treats only a thrown error as a failure: it    *)
(* returns a result immediately whenever the action resolved without       *)
(* throwing, whatever the result is, and it waits or retries only after an *)
(* attempt that threw.                                                     *)
C3_AnyResolvedResultReturned ==
    \A c \in Calls :
      IsRetry(c) =>
        /\ (rst[c].pc = "returned") <=>
             (rst[c].hist # <<>> /\ Last(rst[c].hist) \in {"ok", "retryable"})
        /\ rst[c].pc = "returned" => rst[c].result = Last(rst[c].hist)
        /\ \A i \in 1..(Len(rst[c].hist) - 1) : rst[c].hist[i] \in ActionErrors
        /\ rst[c].pc = "sleep" => Last(rst[c].hist) \in ActionErrors

C3_Witness ==
    \E c \in Calls :
      /\ rst[c].pc = "returned"
      /\ rst[c].result = "retryable"
      /\ rst[c].attempt < rcfg[c].maxAttempts

(* C4: a retry run with maxAttempts = 1 invokes the action exactly once    *)
(* and never waits or retries, whatever the action does.                   *)
C4_SingleAttemptNeverRetries ==
    \A c \in Calls :
      (IsRetry(c) /\ rcfg[c].maxAttempts = 1) =>
        /\ Len(rst[c].hist) <= 1
        /\ rst[c].sleeps = <<>>
        /\ rst[c].pc # "sleep"
        /\ TimerOf(c) = {}
        /\ RetryDone(c) => Len(rst[c].hist) = 1

C4_Witness ==
    \E c \in Calls :
      /\ rcfg[c].maxAttempts = 1
      /\ rst[c].pc = "threw"
      /\ Len(rst[c].hist) = 1

(* C5: the constant delay is waited exactly once between two consecutive   *)
(* attempts and never after the final attempt or after a success: a run    *)
(* that ended after m >= 1 invocations made m-1 delays, each of delayMs,   *)
(* and consecutive invocations are one timer delay apart.                  *)
C5_OneDelayBetweenAttempts ==
    \A c \in Calls :
      IsRetry(c) =>
        /\ \A i \in 1..Len(rst[c].sleeps) : rst[c].sleeps[i] = rcfg[c].delayMs
        /\ \A i \in 2..Len(rst[c].hist) :
             rst[c].at[i] - rst[c].at[i - 1] = TimerDelay(rcfg[c].delayMs)
        /\ Len(rst[c].sleeps) <= Len(rst[c].hist)
        /\ Len(rst[c].sleeps) >= Len(rst[c].hist) - 1
        /\ (Len(rst[c].hist) >= 1 /\ Len(rst[c].sleeps) = Len(rst[c].hist)) =>
             /\ rst[c].pc \in {"ready", "loop", "sleep"}
             /\ rst[c].attempt <= rcfg[c].maxAttempts
        /\ (RetryDone(c) /\ Len(rst[c].hist) >= 1) =>
             /\ Len(rst[c].sleeps) = Len(rst[c].hist) - 1
             /\ TimerOf(c) = {}

C5_Witness ==
    \E c \in Calls :
      /\ rcfg[c].maxAttempts = 3
      /\ rst[c].pc = "returned"
      /\ Len(rst[c].hist) = 2
      /\ rst[c].hist[1] = "TransportError"
      /\ Len(rst[c].sleeps) = 1

(* C6: once the enclosing scenario is cancelled, no retry run starts a     *)
(* further attempt, no poll evaluates its predicate again, and no timer    *)
(* remains scheduled.                                                      *)
C6_CancelStopsRuns ==
    [][cancelled =>
         /\ \A c \in Calls : /\ rst'[c].hist = rst[c].hist
                             /\ pst'[c].evals = pst[c].evals
         /\ timers' = {}]_vars

(* C7: a poll resolves right after the first evaluation that returns true, *)
(* with no further evaluation and no interval wait after it; when the      *)
(* first evaluation returns true it has waited zero intervals.             *)
C7_ResolvesAtFirstTrue ==
    \A c \in Calls :
      IsPoll(c) =>
        /\ \A i \in 1..Len(pst[c].evals) :
             pst[c].evals[i] = "true" =>
               /\ i = Len(pst[c].evals)
               /\ pst[c].pc = "resolved"
               /\ pst[c].endTime = pst[c].at[i]
               /\ pst[c].waits = i - 1
               /\ TimerOf(c) = {}
        /\ (pst[c].evals # <<>> /\ pst[c].evals[1] = "true") =>
             /\ pst[c].waits = 0
             /\ pst[c].endTime = pcfg[c].startAt

C7_Witness ==
    \E c \in Calls :
      /\ pst[c].pc = "resolved"
      /\ pst[c].evals = <<"true">>
      /\ pcfg[c].interval > 0

(* C8: a poll whose predicate is false at every evaluation eventually      *)
(* fails with the timeout error, no earlier than timeout and no later than *)
(* timeout plus one interval after it started.                             *)
TimedOutInTolerance(c) ==
    /\ pst[c].pc = "timedout"
    /\ pst[c].thrown.name = "Error: Condition not met"
    /\ pst[c].endTime - pcfg[c].startAt >= pcfg[c].timeout
    /\ pst[c].endTime - pcfg[c].startAt <= pcfg[c].timeout + pcfg[c].interval

C8_AlwaysFalseTimesOut ==
    \A c \in Calls :
      (IsPoll(c) /\ []AllFalse(c)) => <>TimedOutInTolerance(c)

C8_Witness ==
    \E c \in Calls :
      /\ pst[c].pc = "timedout"
      /\ Len(pst[c].evals) >= 2
      /\ AllFalse(c)

(* C9, as stated: a predicate evaluation that throws does not fail the     *)
(* poll, and the last thrown error is attached to the timeout error.       *)
C9_ThrowingPredicateKeepsPolling ==
    \A c \in Calls :
      /\ pst[c].pc # "rejected"
      /\ (pst[c].pc = "timedout" /\ ~AllFalse(c)) => pst[c].thrown.cause # "none"

(* C9, amended: a predicate evaluation that throws ends the poll at once:  *)
(* the poll fails with the predicate's own error, with no further          *)
(* evaluation and no wait, although the timeout has not elapsed; the       *)
(* timeout error is thrown only after evaluations that all returned false  *)
(* and carries no predicate error.                                         *)
C9_ThrowingPredicateRejects ==
    \A c \in Calls :
      IsPoll(c) =>
        /\ \A i \in 1..Len(pst[c].evals) :
             pst[c].evals[i] \in PredErrors =>
               /\ i = Len(pst[c].evals)
               /\ pst[c].pc = "rejected"
               /\ pst[c].thrown = [name |-> pst[c].evals[i], cause |-> "none"]
               /\ pst[c].endTime = pst[c].at[i]
               /\ TimerOf(c) = {}
        /\ pst[c].pc = "rejected" =>
             (pst[c].evals # <<>> /\ Last(pst[c].evals) \in PredErrors)
        /\ pst[c].pc = "timedout" =>
             (AllFalse(c) /\ pst[c].thrown.cause = "none")

C9_Witness ==
    \E c \in Calls :
      /\ pst[c].pc = "rejected"
      /\ Len(pst[c].evals) >= 2
      /\ pst[c].endTime - pst[c].startTime < pcfg[c].timeout

(* C10: two concurrent polls or retry runs are independent loops with no   *)
(* shared state: a step of one call changes nothing of the other, and      *)
(* under every interleaving the start stamp, the times of the evaluations  *)
(* or attempts and the end of a call are those its own arguments give.     *)
OwnSchedule(c) ==
    /\ IsPoll(c) =>
         /\ pst[c].pc # "ready" => pst[c].startTime = pcfg[c].startAt
         /\ \A i \in 1..Len(pst[c].evals) :
              pst[c].at[i] = pcfg[c].startAt + (i - 1) * TimerDelay(pcfg[c].interval)
         /\ pst[c].waits <= Len(pst[c].evals)
         /\ pst[c].pc = "timedout" =>
              pst[c].endTime =
                pcfg[c].startAt + Len(pst[c].evals) * TimerDelay(pcfg[c].interval)
    /\ IsRetry(c) =>
         \A i \in 1..Len(rst[c].hist) :
           rst[c].at[i] = rcfg[c].startAt + (i - 1) * TimerDelay(rcfg[c].delayMs)

OtherUntouched(c) ==
    \A d \in Calls \ {c} :
      /\ rst'[d] = rst[d]
      /\ pst'[d] = pst[d]
      /\ {t \in timers' : t.call = d} = {t \in timers : t.call = d}

C10_CallsIndependent ==
    /\ [](\A c \in Calls : OwnSchedule(c))
    /\ [][\A c \in Calls :
            (rst'[c] # rst[c] \/ pst'[c] # pst[c]) => OtherUntouched(c)]_vars

C10_Witness ==
    /\ pst[1].pc = "timedout"
    /\ Len(pst[1].evals) >= 2
    /\ pst[2].pc = "resolved"
    /\ pst[2].startTime # pst[1].startTime

(* C26: retry invokes the action at least once for every maxAttempts value *)
(* (0 and negative values included), and whenever retry throws, the thrown *)
(* value is an error that an invocation of the action raised, never        *)
(* undefined.                                                              *)
C26_InvokesOnceThrowsRaisedError ==
    \A c \in Calls :
      (IsRetry(c) /\ RetryDone(c)) =>
        /\ Len(rst[c].hist) >= 1
        /\ rst[c].pc = "threw" =>
             \E i \in 1..Len(rst[c].hist) :
               /\ rst[c].hist[i] \in ActionErrors
               /\ rst[c].thrown = ErrorValue(rst[c].hist[i])

(* C27: waitForCondition evaluates the condition at least once in every    *)
(* call, for every timeout value including 0, and throws the timeout error *)
(* only after at least one evaluation returned false.                      *)
C27_EvaluatesAtLeastOnce ==
    \A c \in Calls :
      (IsPoll(c) /\ PollDone(c)) =>
        /\ Len(pst[c].evals) >= 1
        /\ pst[c].pc = "timedout" =>
             \E i \in 1..Len(pst[c].evals) : pst[c].evals[i] = "false"

--------------------------------------------------------------------------
(* No retry or poll call is made: the state of the timed model at rest.    *)
TimedIdle ==
    /\ now = 0
    /\ cancelled = FALSE
    /\ timers = {}
    /\ rcfg = [c \in Calls |-> IdleRetryCfg]
    /\ rst = [c \in Calls |-> IdleRetry]
    /\ pcfg = [c \in Calls |-> IdlePollCfg]
    /\ pst = [c \in Calls |-> IdlePoll]

--------------------------------------------------------------------------
(* APITestUtils.createPerformanceMetrics, and the loop of a test that      *)
(* collects the response times it is given.                                *)

MaxSamples == 4
MaxSample == 4
SampleValues == 0..MaxSample

RECURSIVE InsertSorted(_, _)
InsertSorted(x, s) ==
    IF s = <<>> THEN <<x>>
    ELSE IF x - Head(s) < 0 THEN <<x>> \o s
    ELSE <<Head(s)>> \o InsertSorted(x, Tail(s))

RECURSIVE NumericSort(_)
\* responseTimes.sort((a, b) => a - b): ascending, stable
NumericSort(s) ==
    IF s = <<>> THEN <<>>
    ELSE InsertSorted(s[Len(s)], NumericSort(SubSeq(s, 1, Len(s) - 1)))

RECURSIVE SumOf(_)
\* responseTimes.reduce((acc, val) => acc + val, 0)
SumOf(s) == IF s = <<>> THEN 0 ELSE Head(s) + SumOf(Tail(s))

\* sorted[i], with JavaScript's 0-based index: undefined outside the array
ElementAt(s, i) == IF i >= 0 /\ i < Len(s) THEN Num(s[i + 1]) ELSE Undefined

\* sum / responseTimes.length
Divide(n, d) ==
    IF d # 0 THEN [kind |-> "number", num |-> n, den |-> d]
    ELSE IF n = 0 THEN NaN ELSE Infinity

MaxIndexPastEnd(n) == n

\* sorted[sorted.length - 1]
MaxIndex(n) == n - 1

MedianIndexLowerMiddle(n) == (n - 1) \div 2

\* sorted[Math.floor(sorted.length / 2)]
MedianIndex(n) == n \div 2

\* Array.prototype.sort sorts the array it is called on and returns it:
\* `sorted` and `responseTimes` are the same array afterwards.
ArrayAfterSort(s) == NumericSort(s)

CreatePerformanceMetrics(responseTimes) ==
    LET sorted == ArrayAfterSort(responseTimes)
        sum == SumOf(sorted)
    IN  [min |-> ElementAt(sorted, 0),
         max |-> ElementAt(sorted, MaxIndex(Len(sorted))),
         avg |-> Divide(sum, Len(sorted)),
         median |-> ElementAt(sorted, MedianIndex(Len(sorted)))]

\* responseTimes.push(duration)
RecordSample ==
    /\ met.pc = "collecting"
    /\ Len(met.samples) < MaxSamples
    /\ \E d \in SampleValues :
         met' = [met EXCEPT !.samples = Append(@, d), !.input = Append(@, d)]
    /\ UNCHANGED <<timed, val, cli, url, more>>

\* const metrics = APITestUtils.createPerformanceMetrics(responseTimes)
Summarize ==
    /\ met.pc = "collecting"
    /\ met' = [met EXCEPT !.pc = "done",
                          !.samples = ArrayAfterSort(met.samples),
                          !.result = CreatePerformanceMetrics(met.samples)]
    /\ UNCHANGED <<timed, val, cli, url, more>>

MetricsInit ==
    /\ TimedIdle
    /\ met = [IdleMet EXCEPT !.pc = "collecting"]
    /\ val = IdleVal /\ cli = IdleCli /\ url = IdleUrl /\ MoreIdle

MetricsNext == RecordSample \/ Summarize

MetricsSpec == MetricsInit /\ [][MetricsNext]_vars

(* Vocabulary: the samples as a bag, by counting. *)
CountBelow(s, x) == Cardinality({i \in 1..Len(s) : s[i] < x})
CountAtMost(s, x) == Cardinality({i \in 1..Len(s) : s[i] <= x})
IsNumber(v) == v.kind = "number"
SummaryIsNumbers(r) ==
    IsNumber(r.min) /\ IsNumber(r.max) /\ IsNumber(r.avg) /\ IsNumber(r.median)

(* C11: the summary of an empty sample sequence fails with                 *)
(* EmptySampleSetError; no summary with a NaN, Infinity or undefined field *)
(* is ever returned.                                                       *)
C11_EmptySamplesFail ==
    met.pc = "done" =>
      /\ met.input = <<>> => met.threw = "EmptySampleSetError"
      /\ met.threw = "none" => SummaryIsNumbers(met.result)

(* C12, as stated: for an even-length sequence the median is the           *)
(* lower-middle element of the ascending sort (index n/2 - 1); for odd     *)
(* length the middle element.                                              *)
C12_MedianLowerMiddle ==
    (met.pc = "done" /\ met.input # <<>>) =>
      LET n == Len(met.input)
          k == IF n % 2 = 0 THEN n \div 2 - 1 ELSE n \div 2
          m == met.result.median
      IN  /\ IsNumber(m)
          /\ CountBelow(met.input, m.num) <= k
          /\ CountAtMost(met.input, m.num) >= k + 1

(* C12, amended: for every non-empty sequence the median is the element at *)
(* index floor(n/2) of the ascending sort: the upper-middle element for    *)
(* even length (so [1,2,3,4] gives 3), the middle element for odd length.  *)
C12_MedianUpperMiddle ==
    (met.pc = "done" /\ met.input # <<>>) =>
      LET n == Len(met.input)
          k == n \div 2
          m == met.result.median
      IN  /\ IsNumber(m)
          /\ m.den = 1
          /\ CountBelow(met.input, m.num) <= k
          /\ CountAtMost(met.input, m.num) >= k + 1
          /\ met.input = <<1, 2, 3, 4>> => m.num = 3

C12_Witness ==
    /\ met.pc = "done"
    /\ met.input = <<4, 1, 3, 2>>
    /\ met.result.median = Num(3)

(* C13: computing the summary leaves the caller's sample sequence          *)
(* unchanged: the same elements in the same order.                         *)
C13_SamplesUnchanged ==
    met.pc = "done" => met.samples = met.input

(* C14: for every non-empty sample sequence min is the least sample, max   *)
(* the greatest and mean the sum divided by the count, so that             *)
(* min <= median <= max and min <= mean <= max; for a single sample all    *)
(* four fields equal it.                                                   *)
C14_MinMaxMean ==
    (met.pc = "done" /\ met.input # <<>>) =>
      LET r == met.result
          n == Len(met.input)
          elems == {met.input[i] : i \in 1..n}
      IN  /\ SummaryIsNumbers(r)
          /\ r.min.den = 1 /\ r.max.den = 1 /\ r.median.den = 1
          /\ r.min.num \in elems /\ \A e \in elems : r.min.num <= e
          /\ r.max.num \in elems /\ \A e \in elems : e <= r.max.num
          /\ r.avg.den = n /\ r.avg.num = SumOf(met.input)
          /\ r.min.num <= r.median.num /\ r.median.num <= r.max.num
          /\ r.min.num * r.avg.den <= r.avg.num
          /\ r.avg.num <= r.max.num * r.avg.den
          /\ n = 1 =>
               /\ r.min = Num(met.input[1]) /\ r.max = Num(met.input[1])
               /\ r.median = Num(met.input[1])
               /\ r.avg.num = met.input[1] * r.avg.den

C14_Witness ==
    /\ met.pc = "done"
    /\ met.input = <<3, 1, 2, 4>>
    /\ met.result.min = Num(1)
    /\ met.result.max = Num(4)
    /\ met.result.avg.num = 10
    /\ met.result.avg.den = 4

--------------------------------------------------------------------------
(* APITestUtils.validateStatusCode / validateContentType / validateHeaders *)
(* / validateJSONStructure: one call on one response. Each expectation is  *)
(* a Playwright expect(...) assertion.                                     *)

MaxExpected == 2

StatusCodes == {200, 404}
LowerHeaderNames == {"content-type", "x-id"}
ExpectedHeaderNames == {"Content-Type", "X-Id", "x-id"}
ContentTypes ==
    {<<"application/", "json">>, <<"application/", "json", ";charset=utf-8">>,
     <<"text/", "html">>}
ExpectedTypes == {<<"json">>, <<"application/", "json">>, <<"text/", "html">>}
HeaderValues == {<<"a">>, <<"b">>}
BodyKeys == {"id", "name"}
ExpectedKeyNames == {"id", "name", "sku"}

Responses ==
    {[status |-> st, headers |-> [n \in LowerHeaderNames |->
                                    IF n = "content-type" THEN ct ELSE x],
      json |-> j, keys |-> k] :
        st \in StatusCodes, ct \in ContentTypes \cup {<<>>},
        x \in HeaderValues \cup {<<>>}, j \in BOOLEAN, k \in SUBSET BodyKeys}

SeqsUpTo(S, n) == UNION {[1..m -> S] : m \in 0..n}
ExpectedHeaderLists ==
    SeqsUpTo([name : ExpectedHeaderNames,
              value : HeaderValues \cup {<<"text/", "html">>}], MaxExpected)
ExpectedKeyLists ==
    {ks \in SeqsUpTo(ExpectedKeyNames, MaxExpected) :
       \A i, j \in 1..Len(ks) : i # j => ks[i] # ks[j]}

ToLowerCaseNone(n) == n

\* key.toLowerCase()
ToLowerCase(n) ==
    CASE n \in {"Content-Type", "content-type", "CONTENT-TYPE"} -> "content-type"
      [] n \in {"X-Id", "x-id", "X-ID"} -> "x-id"

\* headers[name]: the value of the property, undefined (<<>>) when the object
\* has no property of that name
HeaderValue(headers, name) ==
    IF name \in DOMAIN headers THEN headers[name] ELSE <<>>

\* expect(contentType).toContain(expectedType): substring
Contains(hay, needle) ==
    \E i \in 1..(Len(hay) - Len(needle) + 1) :
      SubSeq(hay, i, i + Len(needle) - 1) = needle

ExpectThrowsSoft(holds) == FALSE

\* expect(received).matcher(expected): throws when the assertion does not hold
ExpectThrows(holds) == ~holds

Passed == [error |-> "none", reported |-> <<>>]
Failed(what) == [error |-> "AssertionError", reported |-> <<what>>]

\* expect(response.status(), message).toBe(expectedStatus)
ValidateStatusCode(response, expectedStatus) ==
    IF ExpectThrows(response.status = expectedStatus)
    THEN Failed("status") ELSE Passed

\* expect(response.headers()['content-type']).toContain(expectedType)
ValidateContentType(response, expectedType) ==
    LET contentType == response.headers["content-type"]
    IN  IF ExpectThrows(contentType # <<>> /\ Contains(contentType, expectedType))
        THEN Failed("content-type") ELSE Passed

FirstHeaderBreachAll(headers, expected) ==
    LET bad == SelectSeq(expected,
                 LAMBDA h : HeaderValue(headers, ToLowerCase(h.name)) # h.value)
    IN  [i \in 1..Len(bad) |-> bad[i].name]

RECURSIVE FirstHeaderBreach(_, _)
\* for (const [key, value] of Object.entries(expectedHeaders))
\*   expect(headers[key.toLowerCase()]).toBe(value)
FirstHeaderBreach(headers, expected) ==
    IF expected = <<>> THEN <<>>
    ELSE IF ExpectThrows(HeaderValue(headers, ToLowerCase(Head(expected).name))
                         = Head(expected).value)
         THEN <<Head(expected).name>>
         ELSE FirstHeaderBreach(headers, Tail(expected))

ValidateHeaders(response, expectedHeaders) ==
    LET breach == FirstHeaderBreach(response.headers, expectedHeaders)
    IN  IF breach = <<>> THEN Passed
        ELSE [error |-> "AssertionError", reported |-> breach]

FirstMissingKeyAll(body, expectedKeys) ==
    SelectSeq(expectedKeys, LAMBDA k : k \notin body)

RECURSIVE FirstMissingKey(_, _)
\* for (const key of expectedKeys)
\*   expect(body, `Missing key: ${key}`).toHaveProperty(key)
FirstMissingKey(body, expectedKeys) ==
    IF expectedKeys = <<>> THEN <<>>
    ELSE IF ExpectThrows(Head(expectedKeys) \in body)
         THEN <<Head(expectedKeys)>>
         ELSE FirstMissingKey(body, Tail(expectedKeys))

\* const body = await response.json(): throws when the body is not JSON
ValidateJSONStructure(response, expectedKeys) ==
    IF ~response.json THEN [error |-> "SyntaxError", reported |-> <<>>]
    ELSE LET missing == FirstMissingKey(response.keys, expectedKeys)
         IN  IF missing = <<>> THEN Passed
             ELSE [error |-> "AssertionError", reported |-> missing]

Finish(v, out) ==
    [v EXCEPT !.pc = IF out.error = "none" THEN "returned" ELSE "threw",
              !.error = out.error, !.reported = out.reported]

CallValidateStatusCode ==
    /\ val.pc = "ready"
    /\ \E st \in StatusCodes :
         val' = Finish([val EXCEPT !.op = "status", !.status = st],
                       ValidateStatusCode(val.response, st))
    /\ UNCHANGED <<timed, met, cli, url, more>>

CallValidateContentType ==
    /\ val.pc = "ready"
    /\ \E t \in ExpectedTypes :
         val' = Finish([val EXCEPT !.op = "content-type", !.ctype = t],
                       ValidateContentType(val.response, t))
    /\ UNCHANGED <<timed, met, cli, url, more>>

CallValidateHeaders ==
    /\ val.pc = "ready"
    /\ \E hs \in ExpectedHeaderLists :
         val' = Finish([val EXCEPT !.op = "headers", !.headers = hs],
                       ValidateHeaders(val.response, hs))
    /\ UNCHANGED <<timed, met, cli, url, more>>

CallValidateJSONStructure ==
    /\ val.pc = "ready"
    /\ \E ks \in ExpectedKeyLists :
         val' = Finish([val EXCEPT !.op = "keys", !.keys = ks],
                       ValidateJSONStructure(val.response, ks))
    /\ UNCHANGED <<timed, met, cli, url, more>>

ValidateInit ==
    /\ TimedIdle
    /\ \E r \in Responses : val = [IdleVal EXCEPT !.pc = "ready", !.response = r]
    /\ met = IdleMet /\ cli = IdleCli /\ url = IdleUrl /\ MoreIdle

ValidateNext ==
    \/ CallValidateStatusCode
    \/ CallValidateContentType
    \/ CallValidateHeaders
    \/ CallValidateJSONStructure

ValidateSpec == ValidateInit /\ [][ValidateNext]_vars

(* Vocabulary: the expectations of the call made that the response         *)
(* breaches, stated on the response itself.                                *)
ValDone == val.pc \in {"returned", "threw"}
MissingKeys == {i \in 1..Len(val.keys) : val.keys[i] \notin val.response.keys}
BadHeaders ==
    {i \in 1..Len(val.headers) :
       val.response.headers[ToLowerCase(val.headers[i].name)] # val.headers[i].value}
Breaches ==
    CASE val.op = "status" ->
           IF val.response.status # val.status THEN 1 ELSE 0
      [] val.op = "content-type" ->
           IF val.response.headers["content-type"] = <<>>
              \/ ~Contains(val.response.headers["content-type"], val.ctype)
           THEN 1 ELSE 0
      [] val.op = "headers" -> Cardinality(BadHeaders)
      [] val.op = "keys" -> Cardinality(MissingKeys)
      [] OTHER -> 0
ParseFailure == val.op = "keys" /\ ~val.response.json

(* C15, as stated: response validation never throws for a business         *)
(* validation failure (it throws only when the body is not JSON); a        *)
(* failure is returned as a list of violations.                            *)
C15_ValidationNeverThrows ==
    ValDone =>
      /\ val.pc = "threw" => val.error = "SyntaxError"
      /\ (Breaches > 0 /\ ~ParseFailure) => val.pc = "returned"

(* C15, amended: response validation throws for a business validation     *)
(* failure: a call returns (nothing) exactly when the response meets every *)
(* expectation of the call, and otherwise throws the assertion error of a  *)
(* breached expectation (or the parse error of a body that is not JSON);   *)
(* no result value lists violations.                                       *)
C15_ValidationThrowsOnBreach ==
    ValDone =>
      /\ (val.pc = "returned") <=> (Breaches = 0 /\ ~ParseFailure)
      /\ val.pc = "returned" => (val.error = "none" /\ val.reported = <<>>)
      /\ (val.pc = "threw" /\ ~ParseFailure) =>
           (val.error = "AssertionError" /\ Len(val.reported) = 1)
      /\ ParseFailure => (val.pc = "threw" /\ val.error = "SyntaxError")

C15_Witness ==
    /\ val.pc = "threw"
    /\ val.op = "status"
    /\ val.response.status = 404
    /\ val.status = 200
    /\ val.error = "AssertionError"

(* C16, as stated: every expectation is evaluated and each breach is       *)
(* reported: a status outside the expectation gives one violation, a       *)
(* response missing k required keys gives k violations.                    *)
C16_OneViolationPerBreach ==
    (ValDone /\ ~ParseFailure) => Len(val.reported) = Breaches

(* C16, amended: response validation stops at the first breach: a status   *)
(* other than the expected one raises exactly one error, and a response    *)
(* missing k >= 1 required keys raises exactly one error, which names the  *)
(* first missing key in the order of expectedKeys (likewise the first      *)
(* mismatching header); the expectations after it are not evaluated.       *)
C16_StopsAtFirstBreach ==
    (ValDone /\ ~ParseFailure) =>
      /\ Len(val.reported) = (IF Breaches > 0 THEN 1 ELSE 0)
      /\ (val.op = "status" /\ Breaches = 1) => val.reported = <<"status">>
      /\ (val.op = "keys" /\ MissingKeys # {}) =>
           LET first == CHOOSE i \in MissingKeys : \A j \in MissingKeys : i <= j
           IN  val.reported = <<val.keys[first]>>
      /\ (val.op = "headers" /\ BadHeaders # {}) =>
           LET first == CHOOSE i \in BadHeaders : \A j \in BadHeaders : i <= j
           IN  val.reported = <<val.headers[first].name>>

C16_Witness ==
    /\ val.pc = "threw"
    /\ val.op = "keys"
    /\ val.response.json
    /\ val.response.keys = {}
    /\ val.keys = <<"name", "id">>
    /\ val.reported = <<"name">>

(* Vocabulary: the spellings of one header name, and the expected header   *)
(* lists that differ from the one checked only in the casing of names.     *)
HeaderNameCasings ==
    {{"Content-Type", "content-type", "CONTENT-TYPE"}, {"X-Id", "x-id", "X-ID"}}
SameHeaderName(a, b) == \E c \in HeaderNameCasings : a \in c /\ b \in c
Recasings(expected) ==
    {[i \in 1..Len(expected) |-> [name |-> f[i], value |-> expected[i].value]] :
       f \in {g \in [1..Len(expected) -> ExpectedHeaderNames] :
                \A i \in 1..Len(expected) : SameHeaderName(g[i], expected[i].name)}}

(* C24: header expectations are matched case-insensitively on the header   *)
(* name: the outcome of the header check is the same for any letter-casing *)
(* of the expected header names.                                           *)
C24_HeaderNameCaseInsensitive ==
    (ValDone /\ val.op = "headers") =>
      \A recased \in Recasings(val.headers) :
        LET out == ValidateHeaders(val.response, recased)
        IN  /\ out.error = val.error
            /\ Len(out.reported) = Len(val.reported)
            /\ \A k \in 1..Len(out.reported) :
                 SameHeaderName(out.reported[k], val.reported[k])

C24_Witness ==
    /\ val.pc = "returned"
    /\ val.op = "headers"
    /\ val.headers = <<[name |-> "X-Id", value |-> <<"a">>]>>
    /\ val.response.headers["x-id"] = <<"a">>
    /\ ValidateHeaders(val.response, <<[name |-> "x-id", value |-> <<"a">>]>>).error
         = "none"

--------------------------------------------------------------------------
(* BaseAPIClient.get/post/put/patch/delete, logRequest, logResponse and    *)
(* the service-object operations of CartAPI / AuthAPI built on them.       *)

WrapperOps == {"get", "post", "put", "patch", "delete"}
ServiceOps ==
    {"getCart", "addToCart", "updateCartItem", "removeFromCart", "clearCart",
     "removeCoupon", "calculateShipping", "login", "logout", "updateProfile"}
ResponseStatuses == {200, 404, 500}

\* the first argument of this.logRequest(...) in the operation
LogMethod(op) ==
    CASE op \in {"getCart"} -> "GET"
      [] op \in {"addToCart", "clearCart", "calculateShipping", "login",
                  "logout"} -> "POST"
      [] op \in {"updateCartItem", "updateProfile"} -> "PUT"
      [] op \in {"removeFromCart", "removeCoupon"} -> "DELETE"

\* the wrapper the operation awaits: this.get(...) or this.post(...)
SendMethod(op) ==
    CASE op \in WrapperOps -> op
      [] op \in {"getCart", "removeFromCart", "clearCart", "removeCoupon",
                  "logout"} -> "get"
      [] op \in {"addToCart", "updateCartItem", "calculateShipping", "login",
                  "updateProfile"} -> "post"

\* The third argument of logRequest: absent, an object literal of the
\* operation's scalar arguments, or the caller's own object, which
\* JSON.stringify may or may not be able to serialise.
Payloads(op) ==
    CASE op \in {"getCart", "removeFromCart", "clearCart", "removeCoupon",
                 "logout"} -> {"none"}
      [] op \in {"addToCart", "updateCartItem", "login"} -> {"plain"}
      [] op \in {"calculateShipping", "updateProfile"} -> {"plain", "unserializable"}
      [] op \in WrapperOps -> {"none", "plain"}

ServiceStepsSendFirst == <<"send", "logRequest", "logResponse", "return">>

\* this.logRequest(...); const response = await this.get/post(...);
\* await this.logResponse(response); return response;
ServiceSteps == <<"logRequest", "send", "logResponse", "return">>

\* const url = this.buildURL(...); return await this.request.get(url, ...)
WrapperSteps == <<"send", "return">>

StepsOf(op) == IF op \in WrapperOps THEN WrapperSteps ELSE ServiceSteps

FailOnStatusCodeSet == TRUE

\* this.request.get(url, {headers}): no failOnStatusCode option is passed
FailOnStatusCode == FALSE

Ok(status) == status >= 200 /\ status <= 299

AtStep(name) == cli.pc = "running" /\ cli.steps # <<>> /\ Head(cli.steps) = name

Throw(c, err) == [c EXCEPT !.pc = "threw", !.thrown = err, !.steps = <<>>]

\* logRequest: console.log(...); if (data) console.log(JSON.stringify(data))
LogRequest ==
    /\ AtStep("logRequest")
    /\ cli' = IF cli.payload = "unserializable"
              THEN Throw(cli, "TypeError")
              ELSE [cli EXCEPT !.steps = Tail(@),
                               !.loggedMethod = LogMethod(cli.op),
                               !.events = Append(@, "requestLog")]
    /\ UNCHANGED <<timed, met, val, url, more>>

\* One this.request.<method>(url, ...): the transport answers with a
\* response of some status or fails below the HTTP layer.
Send ==
    /\ AtStep("send")
    /\ \E out \in [kind : {"response"}, status : ResponseStatuses]
                    \cup {[kind |-> "error", status |-> 0]},
          r \in BOOLEAN :
         LET sent == [cli EXCEPT !.sends = @ + 1,
                                 !.sentMethod = SendMethod(cli.op),
                                 !.transport = out,
                                 !.readable = (out.kind = "response" /\ r),
                                 !.events = Append(@, "send")]
         IN  /\ out.kind = "error" => ~r
             /\ cli' = IF out.kind = "error"
                          \/ (FailOnStatusCode /\ ~Ok(out.status))
                       THEN Throw(sent, "TransportError")
                       ELSE [sent EXCEPT !.steps = Tail(@)]
    /\ UNCHANGED <<timed, met, val, url, more>>

\* logResponse: console.log(status); console.log(await response.text())
LogResponse ==
    /\ AtStep("logResponse")
    /\ cli' = IF ~cli.readable
              THEN Throw(cli, "BodyError")
              ELSE [cli EXCEPT !.steps = Tail(@),
                               !.events = Append(@, "responseLog")]
    /\ UNCHANGED <<timed, met, val, url, more>>

\* return response
Return ==
    /\ AtStep("return")
    /\ cli' = [cli EXCEPT !.pc = "done", !.steps = <<>>,
                          !.result = cli.transport,
                          !.events = Append(@, "return")]
    /\ UNCHANGED <<timed, met, val, url, more>>

ClientInit ==
    /\ TimedIdle
    /\ \E op \in WrapperOps \cup ServiceOps : \E p \in Payloads(op) :
         cli = [IdleCli EXCEPT !.pc = "running", !.op = op, !.payload = p,
                               !.steps = StepsOf(op)]
    /\ met = IdleMet /\ val = IdleVal /\ url = IdleUrl /\ MoreIdle

ClientNext == LogRequest \/ Send \/ LogResponse \/ Return

ClientSpec == ClientInit /\ [][ClientNext]_vars

CliEnded == cli.pc \in {"done", "threw"}
IsPrefix(s, t) == Len(s) <= Len(t) /\ SubSeq(t, 1, Len(s)) = s

(* C17: every HTTP method wrapper performs exactly one transport send per  *)
(* call and passes its outcome through unchanged: a response of any        *)
(* status is returned, a transport failure is thrown, nothing is retried.  *)
C17_OneSendPassedThrough ==
    cli.op \in WrapperOps =>
      /\ cli.sends <= 1
      /\ CliEnded => cli.sends = 1 /\ cli.sentMethod = cli.op
      /\ (CliEnded /\ cli.transport.kind = "response") =>
           (cli.pc = "done" /\ cli.result = cli.transport)
      /\ (CliEnded /\ cli.transport.kind = "error") =>
           (cli.pc = "threw" /\ cli.thrown = "TransportError"
            /\ cli.result = NoOutcome)

C17_Witness ==
    /\ cli.op = "delete"
    /\ cli.pc = "done"
    /\ cli.sends = 1
    /\ cli.result = [kind |-> "response", status |-> 404]

(* C18: in every service-object operation the events occur in the order   *)
(* request log entry, transport send, response log entry, return; nothing  *)
(* is sent before the request log entry and nothing is returned before the *)
(* response log entry.                                                     *)
C18_LogSendLogReturn ==
    cli.op \in ServiceOps =>
      /\ IsPrefix(cli.events, <<"requestLog", "send", "responseLog", "return">>)
      /\ cli.pc = "done" =>
           cli.events = <<"requestLog", "send", "responseLog", "return">>

C18_Witness ==
    /\ cli.op = "addToCart"
    /\ cli.pc = "done"
    /\ cli.events = <<"requestLog", "send", "responseLog", "return">>

(* C19: request and response logging never throws: whenever the transport  *)
(* send of a service-object operation succeeds, the operation returns that *)
(* response, whatever the payload and whether or not the response body can *)
(* be read for the log entry.                                              *)
C19_LoggingNeverThrows ==
    (cli.op \in ServiceOps /\ CliEnded) =>
      /\ cli.thrown \notin {"TypeError", "BodyError"}
      /\ cli.transport.kind = "response" =>
           (cli.pc = "done" /\ cli.result = cli.transport)

(* Vocabulary: the HTTP method a wrapper sends.                            *)
MethodOfWrapper(m) ==
    CASE m = "get" -> "GET" [] m = "post" -> "POST" [] m = "put" -> "PUT"
      [] m = "patch" -> "PATCH" [] m = "delete" -> "DELETE" [] OTHER -> "none"

(* C28: for every service-object operation, the HTTP method named in its   *)
(* request log entry is the HTTP method of the request it sends.           *)
C28_LoggedMethodIsSentMethod ==
    (cli.op \in ServiceOps /\ cli.sends = 1) =>
      cli.loggedMethod = MethodOfWrapper(cli.sentMethod)

--------------------------------------------------------------------------
(* BaseAPIClient.buildURL: two calls on the same endpoint, each with its   *)
(* own params object.                                                      *)

MaxParams == 2

BaseURL == "http://shop"
Endpoints == {"/cart", "/index.php?route=checkout/cart"}
ParamKeys == {"limit", "page", "10", "2"}
ParamValues == {"1", "a b"}

\* Keys that are canonical array indices, with their numeric value.
IndexKeys == {"10", "2"}
IndexOf(k) == CASE k = "10" -> 10 [] k = "2" -> 2

ParamObjects ==
    {NoParams} \cup
    {[defined |-> TRUE, entries |-> es] :
       es \in {q \in SeqsUpTo([key : ParamKeys, value : ParamValues], MaxParams) :
                 \A i, j \in 1..Len(q) : i # j => q[i].key # q[j].key}}

RECURSIVE InsertByIndex(_, _)
InsertByIndex(x, s) ==
    IF s = <<>> THEN <<x>>
    ELSE IF IndexOf(x.key) < IndexOf(Head(s).key) THEN <<x>> \o s
         ELSE <<Head(s)>> \o InsertByIndex(x, Tail(s))

RECURSIVE SortByIndex(_)
SortByIndex(s) ==
    IF s = <<>> THEN <<>> ELSE InsertByIndex(Head(s), SortByIndex(Tail(s)))

KeyRank(k) ==
    CASE k = "10" -> 1 [] k = "2" -> 2 [] k = "limit" -> 3 [] k = "page" -> 4

RECURSIVE InsertByKey(_, _)
InsertByKey(x, s) ==
    IF s = <<>> THEN <<x>>
    ELSE IF KeyRank(x.key) < KeyRank(Head(s).key) THEN <<x>> \o s
         ELSE <<Head(s)>> \o InsertByKey(x, Tail(s))

RECURSIVE OwnEntriesSortedByKey(_)
OwnEntriesSortedByKey(entries) ==
    IF entries = <<>> THEN <<>>
    ELSE InsertByKey(Head(entries), OwnEntriesSortedByKey(Tail(entries)))

\* The own enumerable string keys of an object, as new URLSearchParams(obj)
\* reads them: array-index keys in ascending numeric order, then the other
\* keys in insertion order.
OwnEntries(entries) ==
    SortByIndex(SelectSeq(entries, LAMBDA e : e.key \in IndexKeys))
      \o SelectSeq(entries, LAMBDA e : e.key \notin IndexKeys)

\* application/x-www-form-urlencoded serialisation of one name or value
FormEncode(str) == CASE str = "a b" -> "a+b" [] OTHER -> str

RECURSIVE JoinPairs(_)
\* URLSearchParams.prototype.toString()
JoinPairs(entries) ==
    IF entries = <<>> THEN ""
    ELSE LET pair == FormEncode(Head(entries).key) \o "=" \o FormEncode(Head(entries).value)
         IN  IF Tail(entries) = <<>> THEN pair
             ELSE pair \o "&" \o JoinPairs(Tail(entries))

\* let url = `${this.baseURL}${endpoint}`;
\* if (params) url += `?${new URLSearchParams(params).toString()}`
BuildURL(endpoint, params) ==
    LET base == BaseURL \o endpoint
    IN  IF params.defined
        THEN base \o "?" \o JoinPairs(OwnEntries(params.entries))
        ELSE base

BuildFirst ==
    /\ url.pc = "ready"
    /\ url' = [url EXCEPT !.pc = "one", !.url1 = BuildURL(url.endpoint, url.first)]
    /\ UNCHANGED <<timed, met, val, cli, more>>

BuildSecond ==
    /\ url.pc = "one"
    /\ url' = [url EXCEPT !.pc = "built", !.url2 = BuildURL(url.endpoint, url.second)]
    /\ UNCHANGED <<timed, met, val, cli, more>>

UrlInit ==
    /\ TimedIdle
    /\ \E ep \in Endpoints, p1 \in ParamObjects, p2 \in ParamObjects :
         url = [IdleUrl EXCEPT !.pc = "ready", !.endpoint = ep,
                               !.first = p1, !.second = p2]
    /\ met = IdleMet /\ val = IdleVal /\ cli = IdleCli /\ MoreIdle

UrlNext == BuildFirst \/ BuildSecond

UrlSpec == UrlInit /\ [][UrlNext]_vars

PairsOf(params) == {params.entries[i] : i \in 1..Len(params.entries)}
SamePairs ==
    /\ url.first.defined /\ url.second.defined
    /\ PairsOf(url.first) = PairsOf(url.second)
NamedKeysInOrder(params) ==
    SelectSeq(params.entries, LAMBDA e : e.key \notin IndexKeys)

(* C20, as stated: query parameters are serialised with a stable key       *)
(* ordering: two parameter maps with the same key/value pairs give the     *)
(* same URL whatever the order in which their keys were inserted.          *)
C20_SamePairsSameURL ==
    (url.pc = "built" /\ SamePairs) => url.url1 = url.url2

(* C20, amended: query parameters are serialised in the key order of the   *)
(* params object: the same object contents in the same order always give   *)
(* the same URL, and two maps with the same pairs give the same URL        *)
(* exactly when their keys other than array indices were inserted in the   *)
(* same order.                                                             *)
C20_SameURLIffSameKeyOrder ==
    url.pc = "built" =>
      /\ url.first = url.second => url.url1 = url.url2
      /\ SamePairs =>
           (url.url1 = url.url2
              <=> NamedKeysInOrder(url.first) = NamedKeysInOrder(url.second))

C20_Witness ==
    /\ url.pc = "built"
    /\ url.endpoint = "/cart"
    /\ url.first.entries = <<[key |-> "page", value |-> "1"],
                             [key |-> "limit", value |-> "a b"]>>
    /\ url.second.entries = <<[key |-> "limit", value |-> "a b"],
                              [key |-> "page", value |-> "1"]>>
    /\ url.url1 = "http://shop/cart?page=1&limit=a+b"
    /\ url.url2 = "http://shop/cart?limit=a+b&page=1"

(* Vocabulary: the endpoints that already carry a query string.            *)
HasQuery(endpoint) == endpoint \in {"/index.php?route=checkout/cart"}

(* C25: buildURL returns a URL with at most one '?' query separator: when  *)
(* the endpoint already contains a query string the parameters are joined  *)
(* to it with '&', otherwise with '?'.                                     *)
C25_OneQuerySeparator ==
    (url.pc = "built" /\ url.first.defined /\ url.first.entries # <<>>) =>
      url.url1 = BaseURL \o url.endpoint
                   \o (IF HasQuery(url.endpoint) THEN "&" ELSE "?")
                   \o JoinPairs(OwnEntries(url.first.entries))

--------------------------------------------------------------------------
(* One CartAPI client used by concurrent calls: its sessionToken field,    *)
(* setSessionToken, getAuthHeaders, and getCart / addToCart calls whose    *)
(* requests are in flight together. AuthAPI.extractSessionToken supplies   *)
(* the tokens.                                                             *)

MaxSets == 2

Requests == {1, 2}
CartOps == {"getCart", "addToCart"}
ProductIds == {"40", "43"}
ReplyStatuses == {200, 500}

\* Values of the set-cookie response header, in pieces: the name of the
\* session cookie, a ';' separator, or a run of characters without ';'.
\* <<>> is a response without the header.
SetCookies ==
    {<<>>,
     <<"lang=", "en">>,
     <<"OCSESSID=", "abc", ";", " path=/">>,
     <<"OCSESSID=", "xyz">>,
     <<"OCSESSID=", ";", " path=/">>,
     <<"lang=", "en", ";", "OCSESSID=", "abc">>}

NullToken == [kind |-> "null", text |-> ""]
StringToken(t) == [kind |-> "string", text |-> t]

\* cookies.match(/OCSESSID=([^;]+)/): the first place where the cookie name
\* is followed by at least one character other than ';'
SessionMatch(cookies) ==
    {i \in 1..(Len(cookies) - 1) : cookies[i] = "OCSESSID=" /\ cookies[i + 1] # ";"}

\* AuthAPI.extractSessionToken
ExtractSessionToken(cookies) ==
    IF cookies # <<>> /\ SessionMatch(cookies) # {}
    THEN LET i == CHOOSE m \in SessionMatch(cookies) :
                    \A n \in SessionMatch(cookies) : m <= n
         IN  StringToken(cookies[i + 1])
    ELSE NullToken

\* `${this.sessionToken}`
TemplateText(token) ==
    CASE token.kind = "string" -> token.text
      [] token.kind = "null" -> "null"
      [] token.kind = "undefined" -> "undefined"

\* if (this.sessionToken): a non-empty string
Truthy(token) == token.kind = "string" /\ token.text # ""

ContentTypeHeader ==
    [name |-> "Content-Type", value |-> "application/x-www-form-urlencoded"]

GetAuthHeadersAlways(sessionToken) ==
    <<ContentTypeHeader,
      [name |-> "Authorization", value |-> "Bearer " \o TemplateText(sessionToken)]>>

\* CartAPI.getAuthHeaders
GetAuthHeaders(sessionToken) ==
    IF Truthy(sessionToken)
    THEN <<ContentTypeHeader,
           [name |-> "Authorization", value |-> "Bearer " \o TemplateText(sessionToken)]>>
    ELSE <<ContentTypeHeader>>

\* What getCart() / addToCart(productId, 1) hand to this.get / this.post:
\* the arguments are evaluated when the operation is called, before its
\* first await.
RequestOf(op, productId, sessionToken) ==
    IF op = "getCart"
    THEN [method |-> "get", route |-> "/index.php?route=checkout/cart",
          headers |-> GetAuthHeaders(sessionToken), body |-> <<>>]
    ELSE [method |-> "post", route |-> "/index.php?route=checkout/cart/add",
          headers |-> GetAuthHeaders(sessionToken),
          body |-> <<[name |-> "product_id", value |-> productId],
                     [name |-> "quantity", value |-> "1"]>>]

AwaitedRequestShared(i) == 1

\* const response = await this.get(...): the promise of the call's own request
AwaitedRequest(i) == i

\* cartAPI.setSessionToken(await authAPI.extractSessionToken(response))
SetSessionToken ==
    /\ ses.pc = "active"
    /\ ses.sets < MaxSets
    /\ \E c \in SetCookies :
         LET token == ExtractSessionToken(c)
         IN  ses' = [ses EXCEPT !.sessionToken = token, !.sets = @ + 1,
                                !.log = Append(@, [type |-> "set", call |-> 0,
                                                   token |-> token])]
    /\ UNCHANGED <<timed, met, val, cli, url, frm, ext>>

\* cartAPI.getCart() / cartAPI.addToCart(id, 1), up to its first await
CallCartOp(i) ==
    /\ ses.pc = "active"
    /\ ses.calls[i].pc = "new"
    /\ \E op \in CartOps :
       \E id \in (IF op = "getCart" THEN {""} ELSE ProductIds) :
         ses' = [ses EXCEPT
                   !.calls[i] = [@ EXCEPT !.pc = "sent", !.op = op,
                                          !.productId = id,
                                          !.request = RequestOf(op, id, ses.sessionToken)],
                   !.log = Append(@, [type |-> "call", call |-> i,
                                      token |-> NoToken])]
    /\ UNCHANGED <<timed, met, val, cli, url, frm, ext>>

\* The transport answers the request of call i.
Reply(i) ==
    /\ ses.pc = "active"
    /\ ses.calls[i].pc \in {"sent", "done"}
    /\ ses.replies[i] = NoReply
    /\ \E st \in ReplyStatuses :
         ses' = [ses EXCEPT !.replies[i] = [for |-> i, status |-> st]]
    /\ UNCHANGED <<timed, met, val, cli, url, frm, ext>>

\* The await of call i resumes with the response it waited for; the
\* operation logs it and returns it.
Resume(i) ==
    /\ ses.pc = "active"
    /\ ses.calls[i].pc = "sent"
    /\ ses.replies[AwaitedRequest(i)] # NoReply
    /\ ses' = [ses EXCEPT !.calls[i] = [@ EXCEPT !.pc = "done",
                            !.response = ses.replies[AwaitedRequest(i)]]]
    /\ UNCHANGED <<timed, met, val, cli, url, frm, ext>>

SessionInit ==
    /\ TimedIdle
    /\ met = IdleMet /\ val = IdleVal /\ cli = IdleCli /\ url = IdleUrl
    /\ ses = [IdleSes EXCEPT !.pc = "active"]
    /\ frm = IdleFrm /\ ext = IdleExt

SessionNext ==
    \/ SetSessionToken
    \/ \E i \in Requests : CallCartOp(i)
    \/ \E i \in Requests : Reply(i)
    \/ \E i \in Requests : Resume(i)

SessionSpec == SessionInit /\ [][SessionNext]_vars

(* Vocabulary: the token most recently set before call i was made.         *)
Made(i) == ses.calls[i].pc \in {"sent", "done"}
CallIndex(i) == CHOOSE n \in 1..Len(ses.log) :
                  ses.log[n].type = "call" /\ ses.log[n].call = i
SetsBefore(i) == {n \in 1..(CallIndex(i) - 1) : ses.log[n].type = "set"}
TokenInEffect(i) ==
    IF SetsBefore(i) = {} THEN NoToken
    ELSE ses.log[CHOOSE n \in SetsBefore(i) : \A m \in SetsBefore(i) : m <= n].token
AuthorizationOf(i) ==
    SelectSeq(ses.calls[i].request.headers, LAMBDA h : h.name = "Authorization")
SameArguments(i, j) ==
    /\ ses.calls[i].op = ses.calls[j].op
    /\ ses.calls[i].productId = ses.calls[j].productId

(* C21, as stated: the client holds no shared mutable state between calls: *)
(* under every interleaving of concurrent calls and setSessionToken, what  *)
(* a call sends depends only on its own arguments, and each caller         *)
(* receives the response to its own request.                               *)
C21_RequestDependsOnArgumentsOnly ==
    \A i, j \in Requests :
      /\ (Made(i) /\ Made(j) /\ SameArguments(i, j)) =>
           ses.calls[i].request = ses.calls[j].request
      /\ ses.calls[i].pc = "done" => ses.calls[i].response.for = i

(* C21, amended: the client's sessionToken is state shared by its calls:   *)
(* what a call sends is determined by its own arguments together with the  *)
(* token most recently set before the call was made; a setSessionToken     *)
(* made while the call is in flight does not change it, and each caller    *)
(* receives the response to its own request.                               *)
C21_RequestDependsOnArgumentsAndToken ==
    \A i, j \in Requests :
      /\ (Made(i) /\ Made(j) /\ SameArguments(i, j)
          /\ TokenInEffect(i) = TokenInEffect(j)) =>
           ses.calls[i].request = ses.calls[j].request
      /\ Made(i) =>
           /\ ses.calls[i].request.body =
                RequestOf(ses.calls[i].op, ses.calls[i].productId, NoToken).body
           /\ ses.calls[i].request.route =
                RequestOf(ses.calls[i].op, ses.calls[i].productId, NoToken).route
      /\ ses.calls[i].pc = "done" =>
           (ses.calls[i].response.for = i
            /\ ses.calls[i].response = ses.replies[i])

C21_Witness ==
    /\ ses.calls[1].pc = "done" /\ ses.calls[2].pc = "done"
    /\ SameArguments(1, 2)
    /\ ses.calls[1].op = "addToCart"
    /\ TokenInEffect(1) = NoToken
    /\ TokenInEffect(2) = StringToken("abc")
    /\ ses.calls[1].request # ses.calls[2].request
    /\ ses.calls[1].response.status = 500
    /\ ses.calls[2].response.status = 200

(* C22, as stated: after setSessionToken(t), every cart request sent       *)
(* afterwards carries 'Authorization: Bearer t' for the most recently set  *)
(* token t, for every value extractSessionToken can return; before any     *)
(* setSessionToken no cart request carries an Authorization header.        *)
C22_BearerOfLatestToken ==
    \A i \in Requests : Made(i) =>
      IF TokenInEffect(i) = NoToken
      THEN AuthorizationOf(i) = <<>>
      ELSE /\ Len(AuthorizationOf(i)) = 1
           /\ AuthorizationOf(i)[1].value = "Bearer " \o TemplateText(TokenInEffect(i))

(* C22, amended: after setSessionToken(t) with a token string t, every     *)
(* cart request sent afterwards carries 'Authorization: Bearer t' for the  *)
(* most recently set t; after setSessionToken(null) (extractSessionToken   *)
(* found no session cookie), as before any setSessionToken, cart requests  *)
(* carry no Authorization header.                                          *)
C22_BearerOfLatestStringToken ==
    \A i \in Requests : Made(i) =>
      IF TokenInEffect(i).kind = "string"
      THEN /\ Len(AuthorizationOf(i)) = 1
           /\ AuthorizationOf(i)[1].value = "Bearer " \o TokenInEffect(i).text
           /\ TokenInEffect(i).text # ""
      ELSE AuthorizationOf(i) = <<>>

C22_Witness ==
    /\ ses.sets = 2
    /\ ses.log[1].type = "set" /\ ses.log[1].token = StringToken("abc")
    /\ ses.log[2].type = "set" /\ ses.log[2].token = StringToken("xyz")
    /\ Made(1)
    /\ ses.calls[1].op = "getCart"
    /\ AuthorizationOf(1) = <<[name |-> "Authorization", value |-> "Bearer xyz"]>>

--------------------------------------------------------------------------
(* AuthAPI.register and AuthAPI.changePassword: the data object each hands *)
(* to this.post.                                                           *)

Emails == {"a@shop.test", "b@shop.test"}
Passwords == {"old1", "new2", "typo3"}
AgreeValues == {Absent, NumberOf(0), NumberOf(1)}

UserDatas ==
    {[f \in DOMAIN NoData |->
        CASE f = "email" -> StringOf(e)
          [] f = "password" -> StringOf(p)
          [] f = "confirm" -> StringOf(c)
          [] f = "agree" -> a] :
       e \in Emails, p \in Passwords, c \in Passwords, a \in AgreeValues}

Falsy(v) ==
    \/ v.kind = "undefined"
    \/ v.kind = "number" /\ v.num = 0
    \/ v.kind = "string" /\ v.str = ""

\* a || b
Or(a, b) == IF Falsy(a) THEN b ELSE a

\* data: { ...userData, agree: userData.agree || 1 }
RegisterData(userData) ==
    [userData EXCEPT !["agree"] = Or(userData["agree"], NumberOf(1))]

\* data: { password: currentPassword, confirm: newPassword }
ChangePasswordData(currentPassword, newPassword, confirmPassword) ==
    [NoData EXCEPT !["password"] = StringOf(currentPassword),
                   !["confirm"] = StringOf(newPassword)]

Register ==
    /\ frm.pc = "called" /\ frm.op = "register"
    /\ frm' = [frm EXCEPT !.pc = "sent", !.data = RegisterData(frm.userData)]
    /\ UNCHANGED <<timed, met, val, cli, url, ses, ext>>

ChangePassword ==
    /\ frm.pc = "called" /\ frm.op = "changePassword"
    /\ frm' = [frm EXCEPT !.pc = "sent",
                 !.data = ChangePasswordData(frm.currentPassword,
                                             frm.newPassword, frm.confirmPassword)]
    /\ UNCHANGED <<timed, met, val, cli, url, ses, ext>>

FormInit ==
    /\ TimedIdle
    /\ met = IdleMet /\ val = IdleVal /\ cli = IdleCli /\ url = IdleUrl
    /\ ses = IdleSes /\ ext = IdleExt
    /\ \/ \E u \in UserDatas :
            frm = [IdleFrm EXCEPT !.pc = "called", !.op = "register",
                                  !.userData = u]
       \/ \E c \in Passwords, n \in Passwords, k \in Passwords :
            frm = [IdleFrm EXCEPT !.pc = "called", !.op = "changePassword",
                                  !.currentPassword = c, !.newPassword = n,
                                  !.confirmPassword = k]

FormNext == Register \/ ChangePassword

FormSpec == FormInit /\ [][FormNext]_vars

(* C23: register sends the agreement value the caller supplied: agree = 0  *)
(* is sent as agree = 0, and agree is 1 only by default, when the caller   *)
(* omits it.                                                               *)
C23_RegisterSendsAgreeGiven ==
    (frm.pc = "sent" /\ frm.op = "register") =>
      /\ frm.userData["agree"] # Absent => frm.data["agree"] = frm.userData["agree"]
      /\ frm.userData["agree"] = Absent => frm.data["agree"] = NumberOf(1)

(* C29: changePassword(currentPassword, newPassword, confirmPassword)      *)
(* sends the new password as the 'password' field and the confirmation as  *)
(* the 'confirm' field.                                                    *)
C29_ChangePasswordFields ==
    (frm.pc = "sent" /\ frm.op = "changePassword") =>
      /\ frm.data["password"] = StringOf(frm.newPassword)
      /\ frm.data["confirm"] = StringOf(frm.confirmPassword)

--------------------------------------------------------------------------
(* BaseAPIClient.extractValue and APITestUtils.extractNestedValue on the   *)
(* same JSON body and the same dotted path.                                *)

MaxPath == 3

\* The kinds of JSON value: null, a primitive (a number stands for numbers,
\* strings and booleans: reading a key of one gives undefined), an object.
ValueKinds == {"null", "number", "object"}

Parent(p) == SubSeq(p, 1, Len(p) - 1)

\* The bodies response.json() can give: the root holds a value, and a value
\* sits below a key only where an object holds that key. Objects two keys
\* down are empty.
Bodies ==
    {t \in [Places -> ValueKinds \cup {"absent"}] :
       /\ t[<<>>] # "absent"
       /\ \A p \in Places \ {<<>>} : t[p] # "absent" => t[Parent(p)] = "object"}

\* path.split('.'): the keys of the path
Paths == UNION {[1..n -> JsonKeys] : n \in 1..MaxPath}

\* A value met on the way: the kind of value and the place it was read from;
\* undefined is not in the body.
ValueAt(body, p) == [kind |-> body[p], at |-> p]
UndefinedValue == [kind |-> "undefined", at |-> <<>>]

\* value[key] on a value that is not null or undefined
Property(body, value, key) ==
    IF value.kind = "object" /\ Append(value.at, key) \in Places
       /\ body[Append(value.at, key)] # "absent"
    THEN ValueAt(body, Append(value.at, key))
    ELSE UndefinedValue

Nullish(value) == value.kind \in {"null", "undefined"}

RECURSIVE ExtractLoop(_, _, _)
\* for (const key of keys) { value = value[key]; if (value === undefined) break; }
ExtractLoop(body, value, keys) ==
    IF keys = <<>> THEN [outcome |-> "returned", kind |-> value.kind, at |-> value.at]
    ELSE IF Nullish(value)
         THEN [outcome |-> "threw", kind |-> "undefined", at |-> <<>>]
         ELSE LET next == Property(body, value, Head(keys))
              IN  IF next = UndefinedValue
                  THEN [outcome |-> "returned", kind |-> "undefined", at |-> <<>>]
                  ELSE ExtractLoop(body, next, Tail(keys))

\* BaseAPIClient.extractValue
ExtractValue(body, path) == ExtractLoop(body, ValueAt(body, <<>>), path)

RECURSIVE Reduce(_, _, _)
\* path.split('.').reduce((current, key) => current?.[key], obj)
Reduce(body, current, keys) ==
    IF keys = <<>> THEN [outcome |-> "returned", kind |-> current.kind, at |-> current.at]
    ELSE Reduce(body,
                IF Nullish(current) THEN UndefinedValue
                ELSE Property(body, current, Head(keys)),
                Tail(keys))

\* APITestUtils.extractNestedValue
ExtractNestedValue(body, path) == Reduce(body, ValueAt(body, <<>>), path)

CallExtractValue ==
    /\ ext.pc = "ready"
    /\ ext.viaClient = NoResult
    /\ ext' = [ext EXCEPT !.viaClient = ExtractValue(ext.body, ext.path)]
    /\ UNCHANGED <<timed, met, val, cli, url, ses, frm>>

CallExtractNestedValue ==
    /\ ext.pc = "ready"
    /\ ext.viaUtils = NoResult
    /\ ext' = [ext EXCEPT !.viaUtils = ExtractNestedValue(ext.body, ext.path)]
    /\ UNCHANGED <<timed, met, val, cli, url, ses, frm>>

ExtractInit ==
    /\ TimedIdle
    /\ met = IdleMet /\ val = IdleVal /\ cli = IdleCli /\ url = IdleUrl
    /\ ses = IdleSes /\ frm = IdleFrm
    /\ \E b \in Bodies, p \in Paths :
         ext = [IdleExt EXCEPT !.pc = "ready", !.body = b, !.path = p]

ExtractNext == CallExtractValue \/ CallExtractNestedValue

ExtractSpec == ExtractInit /\ [][ExtractNext]_vars

(* C30: BaseAPIClient.extractValue and APITestUtils.extractNestedValue     *)
(* agree on every JSON body and every dotted path: both return the value   *)
(* at the path, and both return undefined, without throwing, when a        *)
(* segment is missing or an intermediate value is null.                    *)
C30_ExtractorsAgree ==
    (ext.viaClient # NoResult /\ ext.viaUtils # NoResult) =>
      /\ ext.viaClient.outcome = "returned"
      /\ ext.viaUtils.outcome = "returned"
      /\ ext.viaClient = ext.viaUtils

====
